---- MODULE Spec2Model ----
(***************************************************************************)
(* Model of the clip-extraction and composition pipeline of                *)
(* animated-video-thumbnails: create_video_thumbnails (main_pipeline.py),  *)
(* create_clips_parallel / create_clips_sequential (video_io.py),          *)
(* process_single_clip (processing.py), compress_gif (gif_io.py) and the   *)
(* pure helpers of core/functions.py.                                      *)
(*                                                                         *)
(* Strings that the code compares or sorts (the temp file names) are       *)
(* sequences of character codes; files are records in a map from path to   *)
(* content; every process (orchestrator, pool workers, pipeline) has a     *)
(* program counter.                                                        *)
(***************************************************************************)
EXTENDS Integers, Sequences, FiniteSets, TLC

\* ------------------------------------------------------------------ bounds

\* Largest number of clips in one create_clips_parallel batch.
MaxClips == 2
\* Largest file size (in abstract units) a written GIF can have.
MaxSize == 1

\* ------------------------------------------------------- program constants

\* f"clip_{index:03d}_..." pads the index to three digits.
PadWidth == 3
\* ord("0"), ord("_"), ord("/"), ord("a")
OrdZero == 48
OrdUnderscore == 95
OrdSlash == 47
OrdA == 97
\* str(uuid.uuid4())[:8]
UidLen == 8
\* create_default_config: clip_duration=2, interval=40
DefaultClipDuration == 2
DefaultInterval == 40

\* ------------------------------------------------------------------ strings

\* The decimal digits of n, most significant first (str(n)).
RECURSIVE Digits(_)
Digits(n) ==
    IF n < 10 THEN <<n>> ELSE Append(Digits(n \div 10), n % 10)

\* format(index, "03d"): zero-padded to PadWidth digits, longer when the
\* number needs more digits.
FormatIndex(index) ==
    LET ds == Digits(index)
        pad == IF Len(ds) >= PadWidth THEN 0 ELSE PadWidth - Len(ds)
    IN  [k \in 1..(pad + Len(ds)) |->
            IF k <= pad THEN OrdZero ELSE OrdZero + ds[k - pad]]

\* "clip_" and ".gif"
ClipPrefix == <<99, 108, 105, 112, OrdUnderscore>>
GifSuffix == <<46, 103, 105, 102>>

\* The 8-character prefixes of uuid4 the model draws from: "0a0a0a0a" and
\* "a0a0a0a0".
UidA == [k \in 1..UidLen |-> IF k % 2 = 1 THEN OrdZero ELSE OrdA]
UidB == [k \in 1..UidLen |-> IF k % 2 = 1 THEN OrdA ELSE OrdZero]
UniqueIds == {UidA, UidB}

\* tempfile.mkdtemp(prefix="video_preview_"): the scratch directory's name
\* ("/t" stands for the system temp directory and the random suffix).
TempDirName == <<OrdSlash, 116>>

\* (mutant) a file name made of the uuid prefix alone.
create_temp_filename_uuid_only(base_dir, index, unique_id) ==
    base_dir \o <<OrdSlash>> \o ClipPrefix \o unique_id \o GifSuffix

\* os.path.join(base_dir, f"clip_{index:03d}_{unique_id}.gif")
create_temp_filename(base_dir, index, unique_id) ==
    base_dir \o <<OrdSlash>> \o ClipPrefix \o FormatIndex(index)
             \o <<OrdUnderscore>> \o unique_id \o GifSuffix

\* Python's str < str: code-point lexicographic order, a proper prefix first.
StrLess(a, b) ==
    \E k \in 1..(Len(b)) :
        /\ \A j \in 1..(k - 1) : j <= Len(a) /\ a[j] = b[j]
        /\ \/ k > Len(a)
           \/ k <= Len(a) /\ a[k] < b[k]

\* Insert x into the sorted sequence s, after the elements not greater.
RECURSIVE InsertSorted(_, _)
InsertSorted(x, s) ==
    IF s = <<>> THEN <<x>>
    ELSE IF StrLess(x, Head(s)) THEN <<x>> \o s
    ELSE <<Head(s)>> \o InsertSorted(x, Tail(s))

\* sorted(completed_files): ascending by string order.
RECURSIVE SortedPaths(_)
SortedPaths(s) ==
    IF s = <<>> THEN <<>>
    ELSE InsertSorted(s[Len(s)], SortedPaths(SubSeq(s, 1, Len(s) - 1)))

\* ------------------------------------------------------------------ helpers

Range(s) == { s[k] : k \in DOMAIN s }

Min(a, b) == IF a < b THEN a ELSE b

\* (mutant) a slice that keeps the whole list.
TakeAll(s, n) == s

\* s[:n] for n >= 0
Take(s, n) == SubSeq(s, 1, Min(n, Len(s)))

\* (mutant) a range that includes its stop value.
PyRangeInclusive(start, stop, step) ==
    LET n == IF stop >= start THEN (stop - start) \div step + 1 ELSE 0
    IN  [k \in 1..n |-> start + (k - 1) * step]

\* list(range(start, stop, step)) for step > 0
PyRange(start, stop, step) ==
    LET n == IF stop > start THEN (stop - start + step - 1) \div step ELSE 0
    IN  [k \in 1..n |-> start + (k - 1) * step]

\* -------------------------------------------------------------- pure code

\* A video's duration is a float: the model counts it in units of
\* 1/DurationUnit second, and int(video_duration) truncates.
DurationUnit == 2
IntPart(d) == d \div DurationUnit

\* (mutant) the range stops at int(video_duration).
generate_timestamps_to_end(video_duration, clip_duration, interval, max_clips) ==
    Take(PyRange(0, IntPart(video_duration), interval), max_clips)

\* generate_timestamps: range(0, int(video_duration) - clip_duration,
\* interval)[:max_clips]; a TimeStamp is its number of seconds.
generate_timestamps(video_duration, clip_duration, interval, max_clips) ==
    Take(PyRange(0, IntPart(video_duration) - clip_duration, interval), max_clips)

\* ClipMetadata(start_time, duration, height, index); the height is the same
\* for every clip of a run and is left out.
ClipMetadata(start_time, duration, index) ==
    [start_time |-> start_time, duration |-> duration, index |-> index]

\* create_processing_metadata: index = position in sampling order, from 0.
create_processing_metadata(timestamps, cfg) ==
    [k \in 1..Len(timestamps) |->
        ClipMetadata(timestamps[k], cfg.clip_duration, k - 1)]

\* ------------------------------------------------------------------- state

VARIABLES
    fn_call,          \* the pure function applied on its own, with its arguments
    fn_result,        \* what that application returned or raised
    handles,          \* the source video and the clip handles: which were
                      \* closed, which were read after their close(), and
                      \* what each worker job has opened and not closed
    caller,           \* "pipeline": create_video_thumbnails runs; "library":
                      \* create_clips_parallel is called directly
    config,           \* the Config of the run (immutable)
    video_duration,   \* the source video's duration, in 1/DurationUnit s
    metadatas,        \* the ClipMetadata list given to create_clips_parallel
    pc,               \* create_video_thumbnails' position
    error,            \* the exception that ended create_video_thumbnails
    opc,              \* create_clips_parallel's position
    pending_exc,      \* the exception propagating out of create_clips_parallel
    temp_dir_exists,  \* whether the scratch directory exists
    tasks,            \* the ClipTask list
    temp_files,       \* create_clips_parallel's temp_files list
    completed_files,  \* its completed_files list
    yielded,          \* the futures as_completed has yielded so far
    job,              \* each worker job's position
    files,            \* the files at the temp paths: path -> content
    clips,            \* the clip handles create_clips_parallel returns
    cleanup_errors,   \* the paths whose os.remove / os.rmdir was refused by
                      \* the file system in cleanup
    cleanup_log,      \* what cleanup printed about those errors
    outfs,            \* the files at the output paths: path -> content
    printed,          \* the last diagnostic compress_gif printed
    tool_run          \* the run of the external tool compress_gif started

vars ==
    << fn_call, fn_result, handles, caller, config, video_duration, metadatas, pc, error, opc, pending_exc,
       temp_dir_exists, tasks, temp_files, completed_files, yielded, job,
       files, clips, cleanup_errors, cleanup_log, outfs, printed, tool_run >>

pureVars == << fn_call, fn_result >>
pipelineVars == << pc, error, outfs, printed, tool_run >>
poolVars ==
    << temp_dir_exists, tasks, temp_files, completed_files, yielded, job,
       files, cleanup_errors, cleanup_log >>
inputVars == << caller, config, video_duration, metadatas >>

\* ------------------------------------------------------------------ inputs

\* Largest grid of the model: cols in 1..MaxCols, rows in 1..MaxRows.
MaxCols == 2
MaxRows == 1
\* multiprocessing.cpu_count() of the machine.
CpuCount == 2

\* The video durations the pipeline runs draw from, in 1/DurationUnit s:
\* with DurationUnit = 2 they are 1.5 s, 2 s, 3 s, 42.5 s, 43 s and 83 s (no
\* clip twice, one clip, two clips and three clips before the grid caps
\* them).
VideoDurations == {3, 4, 6, 85, 86, 166}

\* The index of the first ClipMetadata of a batch given to
\* create_clips_parallel by a library caller: the batch is the slice
\* first .. first + n - 1 of a run's metadata list.
FirstIndexes == {0, 999}

\* ProcessingConfig.max_workers: 0 stands for None.
WorkerChoices == {0, 1, MaxClips + 1}

\* The output paths the command line builds (cmd_generate, args_to_config):
\* without -o the compressed path is the raw path with "_compressed"; with
\* -o or --no-compress both are the same path.
OutputPathPairs ==
    { <<"out.gif", "out_compressed.gif">>, <<"out.gif", "out.gif">> }

Config(cols, rows, enable_parallel, max_workers, paths) ==
    [ clip_duration |-> DefaultClipDuration,
      interval |-> DefaultInterval,
      cols |-> cols,
      rows |-> rows,
      enable_parallel |-> enable_parallel,
      max_workers |-> max_workers,
      output_path |-> paths[1],
      compressed_output_path |-> paths[2] ]

\* ------------------------------------------------------------------- files

NoFile == [state |-> "absent"]
CorruptFile == [state |-> "corrupt"]

Exists(f) == f.state # "absent"

\* A GIF holding the source range [from, to) of the clip with this index.
ClipFile(index, from, to, annotated, opacity) ==
    [ state |-> "good", index |-> index, from |-> from, to |-> to,
      annotated |-> annotated, opacity |-> opacity ]

\* No run of the external tool yet.
NoToolRun == [started |-> FALSE, returncode |-> 0, written |-> FALSE, size |-> 0]

\* An output GIF of the given size.
OutFile(size) == [state |-> "good", size |-> size]

\* -------------------------------------------------------------------- Init

Batch(first, n, cfg) ==
    [k \in 1..n |->
        ClipMetadata((first + k - 1) * cfg.interval, cfg.clip_duration, first + k - 1)]

\* No pure function is applied on its own during a run of the program.
NoCall == [fn |-> "none"]
NoResult == [done |-> FALSE]

\* No video was opened, no handle closed, padded or read yet.
NoHandles ==
    [video |-> "none", closed |-> {}, placeholders |-> 0, placeholder |-> "none",
     grid |-> "none", stale_reads |-> {}, worker_open |-> <<>>]

InitCommon ==
    /\ handles = NoHandles
    /\ error = "none"
    /\ pending_exc = "none"
    /\ temp_dir_exists = FALSE
    /\ tasks = <<>>
    /\ temp_files = <<>>
    /\ completed_files = <<>>
    /\ yielded = {}
    /\ job = <<>>
    /\ files = <<>>
    /\ clips = <<>>
    /\ cleanup_errors = {}
    /\ cleanup_log = {}
    /\ outfs = [p \in {"out.gif", "out_compressed.gif"} |-> NoFile]
    /\ printed = "none"
    /\ tool_run = NoToolRun

\* create_clips_parallel(video_path, metadatas, config) called directly.
InitLibrary ==
    /\ fn_call = NoCall
    /\ fn_result = NoResult
    /\ caller = "library"
    /\ \E par \in BOOLEAN, w \in WorkerChoices :
          config = Config(MaxCols, MaxRows, par, w,
                          <<"out.gif", "out_compressed.gif">>)
    /\ video_duration = 0
    /\ \E first \in FirstIndexes, n \in 0..MaxClips :
          metadatas = Batch(first, n, config)
    /\ pc = "library"
    /\ opc = "call"
    /\ InitCommon

\* create_video_thumbnails(config) called by the command line.
InitPipeline ==
    /\ fn_call = NoCall
    /\ fn_result = NoResult
    /\ caller = "pipeline"
    /\ \E cols \in 1..MaxCols, rows \in 1..MaxRows, par \in BOOLEAN,
          w \in WorkerChoices, paths \in OutputPathPairs :
          config = Config(cols, rows, par, w, paths)
    /\ video_duration \in VideoDurations
    /\ metadatas = <<>>
    /\ pc = "start"
    /\ opc = "idle"
    /\ InitCommon

Init == InitLibrary \/ InitPipeline

\* ------------------------------------------------ process_single_clip (worker)

\* What the primary stage writes: the annotated clip of the task's range,
\* video.subclipped(start, start + duration) ... write_gif(temp_output_path).
PrimaryContent(task) ==
    ClipFile(task.metadata.index,
             task.metadata.start_time,
             task.metadata.start_time + task.metadata.duration,
             TRUE, "full")

\* (mutant) a fallback that cuts the task's own range.
FallbackContentSameRange(task) ==
    ClipFile(task.metadata.index,
             task.metadata.start_time,
             task.metadata.start_time + task.metadata.duration,
             FALSE, "reduced")

\* What the fallback stage writes:
\* video.subclipped(0, duration).resized(...).with_opacity(0.1), no annotation.
FallbackContent(task) ==
    ClipFile(task.metadata.index, 0, task.metadata.duration, FALSE, "reduced")

Running == { i \in DOMAIN job : job[i] \in {"primary", "fallback"} }
Finished == { i \in DOMAIN job : job[i] \in {"ok", "degraded", "failed", "crashed"} }
Pending == { i \in DOMAIN job : job[i] = "pending" }

\* max_workers = config.processing.max_workers or min(cpu_count(), len(metadatas))
PoolSize ==
    IF config.max_workers # 0 THEN config.max_workers
    ELSE Min(CpuCount, Len(metadatas))

\* A free pool process takes the next work item of the call queue.
StartJob(i) ==
    /\ i \in Pending
    /\ \A j \in Pending : i <= j
    /\ Cardinality(Running) < PoolSize
    /\ job' = [job EXCEPT ![i] = "primary"]
    /\ UNCHANGED << pureVars, handles, inputVars, pipelineVars, opc, pending_exc, temp_dir_exists,
                    tasks, temp_files, completed_files, yielded, files, clips,
                    cleanup_errors, cleanup_log >>

\* The video and the clips the try block opens, and those the fallback
\* opens.
PrimaryOpened == {"video", "base_clip", "annotated_clip"}
FallbackOpened == {"fallback video", "black_clip"}

\* The try block runs to its end: the annotated clip is written, then
\* annotated_clip.close(), base_clip.close(), video.close().
PrimaryOk(i) ==
    /\ i \in DOMAIN job /\ job[i] = "primary"
    /\ files' = [files EXCEPT ![tasks[i].temp_output_path] = PrimaryContent(tasks[i])]
    /\ job' = [job EXCEPT ![i] = "ok"]
    /\ handles' = [handles EXCEPT !.worker_open[i] =
                      (@ \cup PrimaryOpened) \ PrimaryOpened]
    /\ UNCHANGED << pureVars, inputVars, pipelineVars, opc, pending_exc, temp_dir_exists,
                    tasks, temp_files, completed_files, yielded, clips,
                    cleanup_errors, cleanup_log >>

\* The try block raises: at VideoFileClip(task.video_path) (nothing is
\* opened, no file) or inside write_gif (a partial file; the video and the
\* two clips are open, and the close() calls after write_gif are skipped).
\* The except block then runs the fallback.
PrimaryFail(i) ==
    /\ i \in DOMAIN job /\ job[i] = "primary"
    /\ \E at \in {"open", "write"} :
          /\ files' = [files EXCEPT ![tasks[i].temp_output_path] =
                          IF at = "open" THEN NoFile ELSE CorruptFile]
          /\ handles' = [handles EXCEPT !.worker_open[i] =
                            IF at = "open" THEN @ ELSE @ \cup PrimaryOpened]
    /\ job' = [job EXCEPT ![i] = "fallback"]
    /\ UNCHANGED << pureVars, inputVars, pipelineVars, opc, pending_exc, temp_dir_exists,
                    tasks, temp_files, completed_files, yielded, clips,
                    cleanup_errors, cleanup_log >>

\* (mutant) a fallback that returns without writing its clip.
FallbackOkNoWrite(i) ==
    /\ i \in DOMAIN job /\ job[i] = "fallback"
    /\ job' = [job EXCEPT ![i] = "degraded"]
    /\ UNCHANGED << pureVars, handles, inputVars, pipelineVars, opc, pending_exc, temp_dir_exists,
                    tasks, temp_files, completed_files, yielded, files, clips,
                    cleanup_errors, cleanup_log >>

\* The fallback is written over whatever the primary stage left, then
\* black_clip.close() and video.close() close what the fallback opened.
FallbackOk(i) ==
    /\ i \in DOMAIN job /\ job[i] = "fallback"
    /\ files' = [files EXCEPT ![tasks[i].temp_output_path] = FallbackContent(tasks[i])]
    /\ job' = [job EXCEPT ![i] = "degraded"]
    /\ handles' = [handles EXCEPT !.worker_open[i] =
                      (@ \cup FallbackOpened) \ FallbackOpened]
    /\ UNCHANGED << pureVars, inputVars, pipelineVars, opc, pending_exc, temp_dir_exists,
                    tasks, temp_files, completed_files, yielded, clips,
                    cleanup_errors, cleanup_log >>

\* The fallback raises too, at VideoFileClip (the file stays as the primary
\* stage left it) or inside write_gif (a partial file; the fallback's video
\* and clip stay open): the path is returned anyway.
FallbackFail(i) ==
    /\ i \in DOMAIN job /\ job[i] = "fallback"
    /\ \E at \in {"open", "write"} :
          /\ files' = [files EXCEPT ![tasks[i].temp_output_path] =
                          IF at = "open" THEN @ ELSE CorruptFile]
          /\ handles' = [handles EXCEPT !.worker_open[i] =
                            IF at = "open" THEN @ ELSE @ \cup FallbackOpened]
    /\ job' = [job EXCEPT ![i] = "failed"]
    /\ UNCHANGED << pureVars, inputVars, pipelineVars, opc, pending_exc, temp_dir_exists,
                    tasks, temp_files, completed_files, yielded, clips,
                    cleanup_errors, cleanup_log >>

\* A pool process dies (killed, out of memory): the pool is broken, every
\* future that has no result yet raises BrokenProcessPool, and the files
\* the running jobs were writing are left as they are or partial.
WorkerCrash ==
    /\ Running # {}
    /\ \E partial \in SUBSET Running :
          files' = [p \in DOMAIN files |->
                      IF \E i \in partial : tasks[i].temp_output_path = p
                      THEN CorruptFile ELSE files[p]]
    /\ job' = [i \in DOMAIN job |-> IF i \in Finished THEN job[i] ELSE "crashed"]
    /\ UNCHANGED << pureVars, handles, inputVars, pipelineVars, opc, pending_exc, temp_dir_exists,
                    tasks, temp_files, completed_files, yielded, clips,
                    cleanup_errors, cleanup_log >>

\* ------------------------------------------- create_clips_parallel (caller)

\* The clip handle VideoFileClip(temp_path) opens on a readable file.
ClipHandle(path, content) ==
    [ path |-> path, index |-> content.index, from |-> content.from,
      to |-> content.to, annotated |-> content.annotated,
      opacity |-> content.opacity ]

\* The clip handle create_clips_sequential cuts from the open source video.
SequentialClip(metadata) ==
    ClipHandle(<<>>, ClipFile(metadata.index, metadata.start_time,
                              metadata.start_time + metadata.duration,
                              TRUE, "full"))

\* create_clips_sequential: one annotated clip per metadata, in input order.
create_clips_sequential(ms) == [k \in 1..Len(ms) |-> SequentialClip(ms[k])]

\* The uuid prefixes of a batch's file names: every assignment of the two
\* UniqueIds, so that the order of the uuid parts need not be the order of
\* the indices and two tasks may draw the same prefix.
UidAssignments(n) == [1..n -> UniqueIds]

\* (mutant) only the enable_parallel flag decides.
UseSequentialWhenDisabled == ~config.enable_parallel

\* if not enable_parallel or len(metadatas) < 2: sequential
UseSequential == ~config.enable_parallel \/ Len(metadatas) < 2

\* The sequential path: create_clips_sequential's result is returned. The
\* function opens the source video with load_video, cuts the clips from it
\* and calls video.close() before it returns them.
RunSequential ==
    /\ opc = "call"
    /\ UseSequential
    /\ clips' = create_clips_sequential(metadatas)
    /\ handles' = [handles EXCEPT !.video = "closed"]
    /\ opc' = "returned"
    /\ UNCHANGED << pureVars, inputVars, pipelineVars, poolVars, pending_exc >>

\* The parallel path up to the submission of every task: mkdtemp, one
\* ClipTask per metadata with its temp path, executor.submit for each.
StartParallel ==
    /\ opc = "call"
    /\ ~UseSequential
    /\ \E uid \in UidAssignments(Len(metadatas)) :
          tasks' = [k \in 1..Len(metadatas) |->
                      [ metadata |-> metadatas[k],
                        temp_output_path |->
                            create_temp_filename(TempDirName, metadatas[k].index, uid[k]) ]]
    /\ temp_files' = [k \in 1..Len(metadatas) |-> tasks'[k].temp_output_path]
    /\ temp_dir_exists' = TRUE
    /\ files' = [p \in Range(temp_files') |-> NoFile]
    /\ job' = [k \in 1..Len(metadatas) |-> "pending"]
    /\ completed_files' = <<>>
    /\ yielded' = {}
    /\ handles' = [handles EXCEPT !.worker_open = [k \in 1..Len(metadatas) |-> {}]]
    /\ opc' = "collect"
    /\ UNCHANGED << pureVars, inputVars, pipelineVars, pending_exc, clips, cleanup_errors, cleanup_log >>

\* (mutant) an except block that does not record the path of a future that
\* raised.
RecordedUnlessRaised(i, recorded) ==
    IF job[i] = "crashed" THEN recorded
    ELSE Append(recorded, tasks[i].temp_output_path)

\* completed_files.append(result_path) with the path process_single_clip
\* returned, its task's temp_output_path; when future.result() raises, the
\* except block appends task.temp_output_path.
Recorded(i, recorded) == Append(recorded, tasks[i].temp_output_path)

\* One round of "for future in as_completed(future_to_task)": a finished
\* future is yielded; its result path is appended, or, when future.result()
\* raises, the task's temp_output_path is appended by the except block.
Collect(i) ==
    /\ opc = "collect"
    /\ i \in Finished
    /\ i \notin yielded
    /\ yielded' = yielded \cup {i}
    /\ completed_files' = Recorded(i, completed_files)
    /\ UNCHANGED << pureVars, handles, inputVars, pipelineVars, opc, pending_exc, temp_dir_exists,
                    tasks, temp_files, job, files, clips, cleanup_errors, cleanup_log >>

\* (mutant) a loop left at the first completed future.
LoopExhaustedFirstCompleted == yielded # {}

\* as_completed is exhausted when every submitted future has been yielded.
LoopExhausted == yielded = DOMAIN tasks

\* The pool's processes have exited: what they held open is gone with them.
PoolGone(h) == [h EXCEPT !.worker_open = [k \in DOMAIN @ |-> {}]]

\* The loop ends, wait() returns and the with block exits
\* (executor.shutdown(wait=True)): the temp files are loaded next.
LeaveLoop ==
    /\ opc = "collect"
    /\ LoopExhausted
    /\ handles' = PoolGone(handles)
    /\ opc' = "load"
    /\ UNCHANGED << pureVars, inputVars, pipelineVars, poolVars, pending_exc, clips >>

\* A KeyboardInterrupt reaches the orchestrator inside the with block: the
\* block's exit runs executor.shutdown(wait=True).
KeyboardInterrupt ==
    /\ opc = "collect"
    /\ pending_exc' = "KeyboardInterrupt"
    /\ opc' = "shutdown"
    /\ UNCHANGED << pureVars, handles, inputVars, pipelineVars, poolVars, clips >>

\* (mutant) shutdown(wait=False): the exit does not wait for the workers.
ShutdownCompleteNoWait == TRUE

\* shutdown(wait=True) returns when no work item is pending or running.
ShutdownComplete == Pending \cup Running = {}

\* The with block's exit returns and the exception goes on to finally.
ShutdownDone ==
    /\ opc = "shutdown"
    /\ ShutdownComplete
    /\ handles' = PoolGone(handles)
    /\ opc' = "cleanup"
    /\ UNCHANGED << pureVars, inputVars, pipelineVars, poolVars, pending_exc, clips >>

\* for temp_path in sorted(completed_files): VideoFileClip(temp_path) when
\* the file exists and opens, None otherwise; None values are filtered out.
RECURSIVE LoadValidClips(_, _)
LoadValidClips(paths, fs) ==
    IF paths = <<>> THEN <<>>
    ELSE IF fs[Head(paths)].state = "good"
         THEN <<ClipHandle(Head(paths), fs[Head(paths)])>>
                  \o LoadValidClips(Tail(paths), fs)
         ELSE LoadValidClips(Tail(paths), fs)

\* "Load temporary files back as VideoFileClip objects" ... return valid_clips
LoadClips ==
    /\ opc = "load"
    /\ clips' = LoadValidClips(SortedPaths(completed_files), files)
    /\ opc' = "cleanup"
    /\ UNCHANGED << pureVars, handles, inputVars, pipelineVars, poolVars, pending_exc >>

\* (mutant) a cleanup that walks completed_files instead of temp_files.
CleanupTargetsCompletedOnly == Range(completed_files)

\* The paths the finally block tries to remove.
CleanupTargets == Range(temp_files)

\* What the except blocks of the finally clause print for the removals that
\* raised: "except (OSError, FileNotFoundError) as _: pass" prints nothing.
CleanupLogged(errors) == {}

\* (mutant) a finally clause whose OSError propagates.
AfterCleanupPropagating(exc, errors) == IF errors # {} THEN "OSError" ELSE exc

\* The exception that leaves the finally clause: the removals' OSErrors are
\* caught, so it is the one that was in flight, if any.
AfterCleanup(exc, errors) == exc

\* finally: os.remove every temp file that exists, then os.rmdir(temp_dir);
\* an OSError of either is swallowed. The file system may refuse any removal
\* (the paths in failing, rmdir_fails), and os.rmdir always fails on a
\* directory that is not empty.
Cleanup ==
    /\ opc = "cleanup"
    /\ \E failing \in SUBSET { p \in CleanupTargets : Exists(files[p]) },
          rmdir_fails \in BOOLEAN :
          /\ files' = [p \in DOMAIN files |->
                          IF p \in CleanupTargets /\ p \notin failing
                          THEN NoFile ELSE files[p]]
          /\ LET empty == \A p \in DOMAIN files : ~Exists(files'[p])
             IN  /\ temp_dir_exists' = ~(empty /\ ~rmdir_fails)
                 /\ cleanup_errors' =
                        failing \cup (IF rmdir_fails THEN {TempDirName} ELSE {})
    /\ cleanup_log' = CleanupLogged(cleanup_errors')
    /\ pending_exc' = AfterCleanup(pending_exc, cleanup_errors')
    /\ opc' = IF pending_exc' = "none" THEN "returned" ELSE "raised"
    /\ UNCHANGED << pureVars, handles, inputVars, pipelineVars, tasks, temp_files,
                    completed_files, yielded, job, clips >>

\* ------------------------------------------------------------ compress_gif

\* One run of the external tool: whether the executable could be started,
\* its exit code, and whether it wrote the output path (and a file of which
\* size). The tool is outside the program: the model draws every
\* combination, a tool that fails writing nothing.
ToolRuns ==
    [started : {FALSE}, returncode : {1}, written : {FALSE}, size : {0}]
    \cup [started : {TRUE}, returncode : {1}, written : {FALSE}, size : {0}]
    \cup [started : {TRUE}, returncode : {0}, written : {FALSE}, size : {0}]
    \cup [started : {TRUE}, returncode : {0}, written : {TRUE}, size : 0..MaxSize]

\* (mutant) subprocess.run without check=True.
CheckRaisesNever(returncode) == FALSE

\* subprocess.run(cmd, check=True) raises CalledProcessError on a non-zero
\* exit code.
CheckRaises(returncode) == returncode # 0

\* compress_gif(input_path, output_path, config) on the file map fs with
\* the tool behaving as run: the file map it leaves, the exception it raises
\* ("none": it returns) and the last diagnostic it prints.
compress_gif(input_path, output_path, fs, run) ==
    IF ~run.started
    THEN [fs |-> fs, raised |-> "FileNotFoundError", printed |-> "gifsicle not found"]
    ELSE IF CheckRaises(run.returncode)
    THEN [fs |-> fs, raised |-> "CalledProcessError", printed |-> "Compression failed"]
    ELSE LET fs1 == IF run.written
                    THEN [fs EXCEPT ![output_path] = OutFile(run.size)]
                    ELSE fs
         IN  IF ~Exists(fs1[input_path]) \/ ~Exists(fs1[output_path])
             \* os.path.getsize raises FileNotFoundError inside the try
             THEN [fs |-> fs1, raised |-> "FileNotFoundError",
                   printed |-> "gifsicle not found"]
             ELSE IF fs1[input_path].size = 0
             \* compressed_size / original_size
             THEN [fs |-> fs1, raised |-> "ZeroDivisionError",
                   printed |-> "Compression completed"]
             ELSE [fs |-> fs1, raised |-> "none", printed |-> "Compression ratio"]

\* -------------------------------------------------- create_video_thumbnails

\* clips[0].fx(lambda clip: clip.set_opacity(0)): a new handle on the same
\* frames, fully transparent.
TransparentCopy(clip) == [clip EXCEPT !.opacity = "transparent"]

\* (mutant) the loop runs while len(padded) <= target_size.
RECURSIVE AppendWhileNotLonger(_, _, _)
AppendWhileNotLonger(padded, target_size, clip) ==
    IF Len(padded) <= target_size
    THEN AppendWhileNotLonger(Append(padded, clip), target_size, clip)
    ELSE padded

\* while len(padded) < target_size: padded.append(transparent_clip)
RECURSIVE AppendWhileShorter(_, _, _)
AppendWhileShorter(padded, target_size, clip) ==
    IF Len(padded) < target_size
    THEN AppendWhileShorter(Append(padded, clip), target_size, clip)
    ELSE padded

\* pad_clips_to_grid_size(clips, target_size): the exception it raises, the
\* list it returns, and the caller's list after the call (padded is a copy:
\* the appends do not reach clips).
pad_clips_to_grid_size(clip_list, target_size) ==
    IF clip_list = <<>>
    THEN [raised |-> "ValueError", value |-> <<>>, clips |-> clip_list]
    ELSE LET padded == clip_list
             transparent_clip == TransparentCopy(clip_list[1])
         IN  [raised |-> "none",
              value |-> AppendWhileShorter(padded, target_size, transparent_clip),
              clips |-> clip_list]

\* The sources the export reads a frame of after close() was called on
\* them: a clip cut by create_clips_sequential reads the source video it was
\* cut from, every clip is read itself.
StaleReads(h, clip_list) ==
    { "source video" : k \in { j \in DOMAIN clip_list :
                                 clip_list[j].path = <<>> /\ h.video = "closed" } }
    \cup { "clip" : k \in { j \in DOMAIN clip_list : j \in h.closed } }

\* load_video, video.duration, generate_timestamps,
\* create_processing_metadata, then the call of create_clips_parallel.
LoadAndSample ==
    /\ pc = "start"
    /\ metadatas' = create_processing_metadata(
                        generate_timestamps(video_duration, config.clip_duration,
                                            config.interval, config.cols * config.rows),
                        config)
    /\ pc' = "clips"
    /\ opc' = "call"
    /\ UNCHANGED << pureVars, handles, caller, config, video_duration, error, outfs, printed, tool_run,
                    poolVars, pending_exc, clips >>

\* An exception of create_clips_parallel ends the run.
ClipsRaised ==
    /\ pc = "clips"
    /\ opc = "raised"
    /\ error' = pending_exc
    /\ pc' = "aborted"
    /\ UNCHANGED << pureVars, handles, inputVars, outfs, printed, tool_run, poolVars, opc, pending_exc, clips >>

\* if not clips: raise ValueError("No clips were successfully created")
RaiseNoClips ==
    /\ pc = "clips"
    /\ opc = "returned"
    /\ clips = <<>>
    /\ error' = "ValueError"
    /\ pc' = "aborted"
    /\ UNCHANGED << pureVars, handles, inputVars, outfs, printed, tool_run, poolVars, opc, pending_exc, clips >>

\* pad_clips_to_grid_size, create_grid_layout, export_gif_optimized (every
\* frame of the padded clips is read and the raw GIF is written at
\* output_path), then "for clip in clips: clip.close()" and
\* grid_clip.close(): the placeholders of padded_clips are not in clips.
ComposeAndExport ==
    /\ pc = "clips"
    /\ opc = "returned"
    /\ clips # <<>>
    /\ \E size \in 1..MaxSize :
          outfs' = [outfs EXCEPT ![config.output_path] = OutFile(size)]
    /\ LET padded_clips ==
               pad_clips_to_grid_size(clips, config.cols * config.rows).value
           placeholders == Len(padded_clips) - Len(clips)
       IN  handles' = [handles EXCEPT
                          !.placeholders = placeholders,
                          !.placeholder = IF placeholders > 0 THEN "open" ELSE "none",
                          !.stale_reads = StaleReads(handles, padded_clips),
                          !.closed = DOMAIN clips,
                          !.grid = "closed"]
    /\ pc' = "exported"
    /\ UNCHANGED << pureVars, inputVars, error, printed, tool_run, poolVars, opc, pending_exc, clips >>

\* compress_gif(config.output_path, config.compressed_output_path, ...)
CompressStep ==
    /\ pc = "exported"
    /\ \E run \in ToolRuns :
          LET r == compress_gif(config.output_path, config.compressed_output_path,
                                outfs, run)
          IN  /\ outfs' = r.fs
              /\ printed' = r.printed
              /\ tool_run' = run
              /\ error' = r.raised
              /\ pc' = IF r.raised = "none" THEN "compressed" ELSE "aborted"
    /\ UNCHANGED << pureVars, handles, inputVars, poolVars, opc, pending_exc, clips >>

\* if os.path.exists(config.compressed_output_path): os.remove(config.output_path)
remove_original(fs, cfg) ==
    IF Exists(fs[cfg.compressed_output_path])
    THEN [fs EXCEPT ![cfg.output_path] = NoFile]
    ELSE fs

\* The last step of create_video_thumbnails.
RemoveOriginal ==
    /\ pc = "compressed"
    /\ outfs' = remove_original(outfs, config)
    /\ pc' = "done"
    /\ UNCHANGED << pureVars, handles, inputVars, error, printed, tool_run, poolVars, opc, pending_exc, clips >>

\* -------------------------------------------------------------------- Next

Next ==
    \/ LoadAndSample
    \/ RunSequential
    \/ StartParallel
    \/ \E i \in DOMAIN job : StartJob(i)
    \/ \E i \in DOMAIN job : PrimaryOk(i)
    \/ \E i \in DOMAIN job : PrimaryFail(i)
    \/ \E i \in DOMAIN job : FallbackOk(i)
    \/ \E i \in DOMAIN job : FallbackFail(i)
    \/ WorkerCrash
    \/ \E i \in DOMAIN job : Collect(i)
    \/ LeaveLoop
    \/ KeyboardInterrupt
    \/ ShutdownDone
    \/ LoadClips
    \/ Cleanup
    \/ ClipsRaised
    \/ RaiseNoClips
    \/ ComposeAndExport
    \/ CompressStep
    \/ RemoveOriginal

Spec == Init /\ [][Next]_vars

\* ------------------------------------------------------------------ claims

\* create_clips_parallel took the parallel path.
ParallelPath == tasks # <<>>

\* create_clips_parallel has returned or raised.
Exited == opc \in {"returned", "raised"}

TaskPaths == { tasks[i].temp_output_path : i \in DOMAIN tasks }

\* C1: on the parallel path the returned clip handles are in strictly
\* increasing ClipMetadata.index order, for any completion order and any
\* number of clips. (The claim as stated.)
C1_ClipsInIndexOrder ==
    (ParallelPath /\ opc = "returned") =>
        \A a, b \in DOMAIN clips : a < b => clips[a].index < clips[b].index

\* C2: after create_video_thumbnails returns normally the file at
\* config.compressed_output_path exists, also when it equals output_path.
\* (The claim as stated.)
C2_CompressedOutputExists ==
    pc = "done" => Exists(outfs[config.compressed_output_path])

\* C3 as stated: whenever create_clips_parallel returns or raises on the
\* parallel path, no temp file path and no scratch directory exists.
C3_AllTempFilesRemoved ==
    (ParallelPath /\ Exited) =>
        /\ \A p \in TaskPaths : ~Exists(files[p])
        /\ ~temp_dir_exists

\* C3 as amended: whenever create_clips_parallel returns or raises on the
\* parallel path, every temp path whose os.remove was not refused no longer
\* exists, and the scratch directory no longer exists unless a removal (of a
\* temp file or of the directory) was refused.
C3_TempFilesRemovedUnlessRefused ==
    (ParallelPath /\ Exited) =>
        /\ \A p \in TaskPaths : Exists(files[p]) => p \in cleanup_errors
        /\ temp_dir_exists => cleanup_errors # {}

\* C3 witness: a batch in which one job wrote its clip and another failed in
\* both stages has returned, and nothing of it is left.
C3_Witness ==
    /\ ParallelPath /\ opc = "returned"
    /\ \E i, j \in DOMAIN job : job[i] = "ok" /\ job[j] = "failed"
    /\ \A p \in TaskPaths : ~Exists(files[p])
    /\ ~temp_dir_exists

\* C4: the temp files are re-opened only after every submitted job has
\* completed and been collected; a failed job or a raising future neither
\* ends the collection early nor makes create_clips_parallel raise.
C4_LoadAfterAllJobs ==
    /\ pending_exc \in {"none", "KeyboardInterrupt"}
    /\ (ParallelPath /\ (opc = "load" \/ (opc \in {"cleanup", "returned"} /\ pending_exc = "none"))) =>
          /\ Finished = DOMAIN tasks
          /\ yielded = DOMAIN tasks
          /\ Len(completed_files) = Len(tasks)
          /\ Range(completed_files) = TaskPaths

\* C4 witness: loading starts after a batch in which a future raised and
\* another job, collected later, succeeded.
C4_Witness ==
    /\ opc = "load"
    /\ \E i, j \in DOMAIN job :
          /\ job[i] = "crashed" /\ job[j] = "ok"
          /\ completed_files[1] = tasks[i].temp_output_path

\* C5: when every job of a batch ends with its primary clip or, its primary
\* extraction having failed, with its fallback clip, every temp path holds a
\* readable file when loading starts, create_clips_parallel (when no
\* interrupt ends it) returns one handle per metadata entry, and the pipeline
\* does not abort for want of clips.
C5_FallbackFillsEverySlot ==
    (ParallelPath /\ \A i \in DOMAIN job : job[i] \in {"ok", "degraded"}) =>
        /\ opc = "load" => \A p \in TaskPaths : files[p].state = "good"
        /\ (opc \in {"cleanup", "returned"} /\ pending_exc = "none") =>
              /\ Len(clips) = Len(metadatas)
              /\ { clips[k].index : k \in DOMAIN clips }
                     = { metadatas[k].index : k \in DOMAIN metadatas }
        /\ ~(pc = "aborted" /\ error = "ValueError")

\* C5 witness: a batch with a degraded job has returned with every slot
\* filled.
C5_Witness ==
    /\ ParallelPath /\ opc = "returned"
    /\ \E i \in DOMAIN job : job[i] = "degraded"
    /\ \A i \in DOMAIN job : job[i] \in {"ok", "degraded"}
    /\ Len(clips) = Len(metadatas)

\* The file of a job that ended with its fallback, while it is on disk.
FallbackFiles ==
    { i \in DOMAIN job :
        job[i] = "degraded" /\ opc \in {"collect", "shutdown", "load"} }

\* C6 as stated: the fallback clip covers the same source range
\* [start_time, start_time + duration) as the job's ClipMetadata, at reduced
\* opacity and without annotation.
C6_FallbackSameRange ==
    \A i \in FallbackFiles :
        LET f == files[tasks[i].temp_output_path]
            m == tasks[i].metadata
        IN  /\ f.state = "good"
            /\ f.from = m.start_time /\ f.to = m.start_time + m.duration
            /\ f.opacity = "reduced" /\ ~f.annotated

\* C6 as amended: the fallback clip covers the first duration seconds of
\* the source, [0, duration), whatever the job's start_time, at reduced
\* opacity and without annotation.
C6_FallbackCoversVideoStart ==
    \A i \in FallbackFiles :
        LET f == files[tasks[i].temp_output_path]
            m == tasks[i].metadata
        IN  /\ f.state = "good"
            /\ f.from = 0 /\ f.to = m.duration
            /\ f.opacity = "reduced" /\ ~f.annotated

\* C6 witness: the fallback of a job whose range does not start at 0 is on
\* disk.
C6_Witness ==
    \E i \in FallbackFiles :
        /\ tasks[i].metadata.start_time > 0
        /\ files[tasks[i].temp_output_path].state = "good"

\* The handles of the readable files among the tasks' temp paths, in the
\* tasks' (that is the metadata list's) order.
RECURSIVE ReadableInTaskOrder(_, _)
ReadableInTaskOrder(ts, fs) ==
    IF ts = <<>> THEN <<>>
    ELSE LET p == Head(ts).temp_output_path
         IN  IF fs[p].state = "good"
             THEN <<ClipHandle(p, fs[p])>> \o ReadableInTaskOrder(Tail(ts), fs)
             ELSE ReadableInTaskOrder(Tail(ts), fs)

\* C7: on the parallel path the returned list holds exactly the clips whose
\* temp file exists and opens, in their original relative order, and
\* create_video_thumbnails aborts with the no-clips error if and only if no
\* clip loaded. (The claim as stated.)
C7_LoadedClipsInOriginalOrder ==
    /\ (ParallelPath /\ opc = "cleanup" /\ pending_exc = "none") =>
          clips = ReadableInTaskOrder(tasks, files)
    /\ (pc = "aborted" /\ error = "ValueError") => clips = <<>>
    /\ (pc \in {"exported", "compressed", "done"}
          \/ (pc = "aborted" /\ error \notin {"ValueError", "KeyboardInterrupt"}))
          => clips # <<>>

\* C8 as stated: after a KeyboardInterrupt in the parallel phase, when
\* create_clips_parallel exits the pool is shut down and the run's temp
\* files and scratch directory have been removed.
C8_InterruptRemovesEverything ==
    (opc = "raised" /\ pending_exc = "KeyboardInterrupt") =>
        /\ Pending \cup Running = {}
        /\ \A p \in TaskPaths : ~Exists(files[p])
        /\ ~temp_dir_exists

\* C8 as amended: after a KeyboardInterrupt in the parallel phase, when
\* create_clips_parallel exits no job is pending or running, every temp file
\* whose os.remove was not refused has been removed, and the scratch
\* directory has been removed unless a removal was refused.
C8_InterruptCleansUpUnlessRefused ==
    (opc = "raised" /\ pending_exc = "KeyboardInterrupt") =>
        /\ Pending \cup Running = {}
        /\ \A p \in TaskPaths : Exists(files[p]) => p \in cleanup_errors
        /\ temp_dir_exists => cleanup_errors # {}

\* C8 witness: the interrupt came before a job that wrote its clip had been
\* collected; create_clips_parallel has raised and nothing is left.
C8_Witness ==
    /\ opc = "raised" /\ pending_exc = "KeyboardInterrupt"
    /\ \E i \in DOMAIN job : job[i] = "ok" /\ i \notin yielded
    /\ \A p \in TaskPaths : ~Exists(files[p])
    /\ ~temp_dir_exists

\* compress_gif has been called.
CompressCalled == printed # "none"

\* C9: when the external tool exits non-zero, compress_gif raises,
\* create_video_thumbnails aborts and the raw file at output_path stays; the
\* raw file is missing after the export only when the tool had exited 0.
C9_RawKeptOnToolFailure ==
    /\ (tool_run.started /\ tool_run.returncode # 0) =>
          /\ pc = "aborted" /\ error = "CalledProcessError"
          /\ Exists(outfs[config.output_path])
    /\ (CompressCalled /\ ~Exists(outfs[config.output_path])) =>
          /\ tool_run.started /\ tool_run.returncode = 0
          /\ pc = "done"

\* C9 witness: the tool exited non-zero, the run aborted, the raw file is
\* there.
C9_Witness ==
    /\ tool_run.started /\ tool_run.returncode # 0
    /\ pc = "aborted" /\ error = "CalledProcessError"
    /\ Exists(outfs[config.output_path])

\* C10: when the external tool exits with code 0, compress_gif returns
\* normally, whatever the size report finds. (The claim as stated.)
C10_ExitZeroReturnsNormally ==
    (tool_run.started /\ tool_run.returncode = 0) =>
        /\ error = "none"
        /\ pc \in {"compressed", "done"}

\* C11: compress_gif prints "gifsicle not found" exactly when the gifsicle
\* executable could not be started, and "Compression failed" exactly when
\* the tool ran and exited non-zero. (The claim as stated.)
C11_DiagnosticNamesTheFailure ==
    /\ (printed = "gifsicle not found") <=> (CompressCalled /\ ~tool_run.started)
    /\ (printed = "Compression failed") <=>
          (tool_run.started /\ tool_run.returncode # 0)

\* ------------------------------------------ pure functions on their own

\* The Config the pure functions are applied under: the default clip
\* duration and interval, sequential.
DefaultConfig ==
    Config(MaxCols, MaxRows, FALSE, 0, <<"out.gif", "out_compressed.gif">>)

\* Every variable of a run of the program.
programVars ==
    << handles, caller, config, video_duration, metadatas, pc, error, opc, pending_exc,
       temp_dir_exists, tasks, temp_files, completed_files, yielded, job,
       files, clips, cleanup_errors, cleanup_log, outfs, printed, tool_run >>

\* One element of an argument vector: a literal text, or an f-string made of
\* a literal text followed by the decimal digits of a number.
Lit(text) == [text |-> text, digits |-> <<>>]
FString(text, n) == [text |-> text, digits |-> Digits(n)]

\* (mutant) list.insert with the index taken as the end of the list.
PyInsertAtEnd(list, index, x) == Append(list, x)

\* list.insert(index, x): a negative index counts from the end, an index out
\* of range is clamped, and x goes in front of the element at that index.
PyInsert(list, index, x) ==
    LET fromEnd == IF index < 0 THEN index + Len(list) ELSE index
        at == IF fromEnd < 0 THEN 0 ELSE Min(fromEnd, Len(list))
    IN  SubSeq(list, 1, at) \o <<x>> \o SubSeq(list, at + 1, Len(list))

\* CompressionConfig(lossy_level, optimization_level, max_colors,
\* careful_optimization)
CompressionConfig(lossy_level, optimization_level, max_colors, careful) ==
    [lossy_level |-> lossy_level, optimization_level |-> optimization_level,
     max_colors |-> max_colors, careful_optimization |-> careful]

\* build_gifsicle_command(input_path, output_path, config)
build_gifsicle_command(input_path, output_path, cc) ==
    LET cmd0 == << Lit("gifsicle"),
                   FString("-O", cc.optimization_level),
                   FString("--lossy=", cc.lossy_level),
                   FString("--colors=", cc.max_colors),
                   Lit(input_path) >>
        cmd1 == IF cc.careful_optimization
                THEN PyInsert(cmd0, 0 - 1, Lit("--careful"))
                ELSE cmd0
    IN  cmd1 \o << Lit("-o"), Lit(output_path) >>

\* The applications of build_gifsicle_command: the defaults of
\* DEFAULT_COMPRESSION_CONFIG and other values, over every pair of paths.
BuildCalls ==
    { [fn |-> "build_gifsicle_command", input_path |-> paths[1],
       output_path |-> paths[2],
       config |-> CompressionConfig(lossy, opt, colors, careful)] :
         paths \in {"out.gif", "out_compressed.gif"} \X {"out.gif", "out_compressed.gif"},
         lossy \in {0, 70}, opt \in {1, 3}, colors \in {2, 128},
         careful \in BOOLEAN }

\* The function returns value.
Returned(value) == [done |-> TRUE, raised |-> "none", value |-> value]

ApplyBuildCommand ==
    /\ fn_call.fn = "build_gifsicle_command"
    /\ ~fn_result.done
    /\ fn_result' = Returned(build_gifsicle_command(
                        fn_call.input_path, fn_call.output_path, fn_call.config))
    /\ UNCHANGED << fn_call, programVars >>

\* C12: build_gifsicle_command returns gifsicle, -O<optimization_level>,
\* --lossy=<lossy_level>, --colors=<max_colors>, then --careful exactly when
\* careful_optimization is set, then input_path, -o, output_path; --careful
\* stands immediately before the input path and the vector ends with the
\* input path, -o and the output path.
C12_CommandVector ==
    (fn_call.fn = "build_gifsicle_command" /\ fn_result.done) =>
        LET cc == fn_call.config
            cmd == fn_result.value
            n == Len(cmd)
        IN  /\ fn_result.raised = "none"
            /\ n = IF cc.careful_optimization THEN 8 ELSE 7
            /\ cmd[1] = [text |-> "gifsicle", digits |-> <<>>]
            /\ cmd[2] = [text |-> "-O", digits |-> Digits(cc.optimization_level)]
            /\ cmd[3] = [text |-> "--lossy=", digits |-> Digits(cc.lossy_level)]
            /\ cmd[4] = [text |-> "--colors=", digits |-> Digits(cc.max_colors)]
            /\ cc.careful_optimization =>
                  /\ cmd[5] = [text |-> "--careful", digits |-> <<>>]
                  /\ cmd[6] = [text |-> fn_call.input_path, digits |-> <<>>]
            /\ \A k \in 1..n :
                  cmd[k].text = "--careful" => (cc.careful_optimization /\ k = 5)
            /\ cmd[n - 2] = [text |-> fn_call.input_path, digits |-> <<>>]
            /\ cmd[n - 1] = [text |-> "-o", digits |-> <<>>]
            /\ cmd[n] = [text |-> fn_call.output_path, digits |-> <<>>]

\* C12 witness: a command built with careful_optimization set.
C12_Witness ==
    /\ fn_call.fn = "build_gifsicle_command"
    /\ fn_call.config.careful_optimization
    /\ fn_result.done
    /\ Len(fn_result.value) = 8

\* The largest duration (in 1/DurationUnit s), clip duration, interval and
\* clip count of the applications of generate_timestamps.
MaxDuration == 12
MaxClipDuration == 2
MaxInterval == 3
MaxCount == 3

\* The applications of generate_timestamps: every small combination, and
\* the default clip duration and interval on videos of about 43 and 130 s.
SampleCalls ==
    { [fn |-> "generate_timestamps", video_duration |-> d, clip_duration |-> c,
       interval |-> i, max_clips |-> m] :
         d \in 0..MaxDuration, c \in 1..MaxClipDuration, i \in 1..MaxInterval,
         m \in 0..MaxCount }
    \cup
    { [fn |-> "generate_timestamps", video_duration |-> d,
       clip_duration |-> DefaultClipDuration, interval |-> DefaultInterval,
       max_clips |-> MaxCount] :
         d \in { 42 * DurationUnit, 42 * DurationUnit + 1, 130 * DurationUnit } }

ApplyGenerateTimestamps ==
    /\ fn_call.fn = "generate_timestamps"
    /\ ~fn_result.done
    /\ fn_result' = Returned(generate_timestamps(
                        fn_call.video_duration, fn_call.clip_duration,
                        fn_call.interval, fn_call.max_clips))
    /\ UNCHANGED << fn_call, programVars >>

\* C13: for every duration, clip_duration > 0, interval > 0 and
\* max_clips >= 0, generate_timestamps returns at most max_clips entries, in
\* strictly increasing order, each with t + clip_duration < duration.
C13_TimestampsBounded ==
    (fn_call.fn = "generate_timestamps" /\ fn_result.done) =>
        LET ts == fn_result.value
        IN  /\ fn_result.raised = "none"
            /\ Len(ts) <= fn_call.max_clips
            /\ \A k \in 1..(Len(ts) - 1) : ts[k] < ts[k + 1]
            /\ \A k \in 1..Len(ts) :
                  (ts[k] + fn_call.clip_duration) * DurationUnit
                      < fn_call.video_duration

\* C13 witness: the cap cuts a list of several timestamps of a video whose
\* duration is not a whole number of seconds.
C13_Witness ==
    /\ fn_call.fn = "generate_timestamps"
    /\ fn_result.done
    /\ fn_call.video_duration % DurationUnit # 0
    /\ Len(fn_result.value) = fn_call.max_clips
    /\ Len(fn_result.value) >= 2
    /\ Len(PyRange(0, IntPart(fn_call.video_duration) - fn_call.clip_duration,
                   fn_call.interval)) > fn_call.max_clips

\* The multiples k of interval with k * interval + clip_duration < duration.
QualifyingMultiples(d, c, i) ==
    { k \in 0..d : (k * i + c) * DurationUnit < d }

\* C14: generate_timestamps returns exactly the first max_clips values of
\* 0, interval, 2 * interval, ... that satisfy t + clip_duration < duration,
\* whether or not the duration is a whole number of seconds. (The claim as
\* stated.)
C14_EveryQualifyingMultiple ==
    (fn_call.fn = "generate_timestamps" /\ fn_result.done) =>
        LET q == QualifyingMultiples(fn_call.video_duration,
                                     fn_call.clip_duration, fn_call.interval)
            n == Min(fn_call.max_clips, Cardinality(q))
        IN  fn_result.value = [k \in 1..n |-> (k - 1) * fn_call.interval]

\* The video of the run is not longer than one clip.
VideoTooShort == video_duration <= config.clip_duration * DurationUnit

\* C15: when the duration is at most clip_duration, generate_timestamps
\* returns the empty list and create_video_thumbnails ends with the fatal
\* "No clips were successfully created": no clip is extracted, no GIF is
\* exported and the compression tool is not run.
C15_NoClipsIsFatal ==
    (caller = "pipeline" /\ VideoTooShort) =>
        /\ generate_timestamps(video_duration, config.clip_duration,
                               config.interval, config.cols * config.rows) = <<>>
        /\ metadatas = <<>> /\ tasks = <<>> /\ job = <<>> /\ clips = <<>>
        /\ pc \in {"start", "clips", "aborted"}
        /\ pc = "aborted" => error = "ValueError"
        /\ \A p \in DOMAIN outfs : ~Exists(outfs[p])
        /\ ~CompressCalled /\ tool_run = NoToolRun

\* C15 witness: a run on a video not longer than one clip has aborted.
C15_Witness ==
    /\ caller = "pipeline"
    /\ VideoTooShort
    /\ pc = "aborted"
    /\ error = "ValueError"

\* The longest handle list and the largest target of the applications of
\* pad_clips_to_grid_size.
MaxHandles == 3
MaxTarget == 5

\* The applications of pad_clips_to_grid_size: the first n handles a
\* sequential run cuts, starting at either of two clip indices.
PadCalls ==
    { [fn |-> "pad_clips_to_grid_size",
       clips |-> create_clips_sequential(Batch(first, k, DefaultConfig)),
       target_size |-> n] :
         first \in 0..1, k \in 0..MaxHandles, n \in 0..MaxTarget }

ApplyPadClips ==
    /\ fn_call.fn = "pad_clips_to_grid_size"
    /\ ~fn_result.done
    /\ LET r == pad_clips_to_grid_size(fn_call.clips, fn_call.target_size)
       IN  fn_result' = [done |-> TRUE, raised |-> r.raised, value |-> r.value,
                         clips |-> r.clips]
    /\ UNCHANGED << fn_call, programVars >>

\* C18: for a non-empty list of k handles and a target n >= k,
\* pad_clips_to_grid_size returns exactly n handles: the k inputs in order,
\* then n - k fully transparent duplicates of the first input; the input
\* list is left as it was.
C18_PaddedToTarget ==
    ( /\ fn_call.fn = "pad_clips_to_grid_size"
      /\ fn_result.done
      /\ Len(fn_call.clips) >= 1
      /\ fn_call.target_size >= Len(fn_call.clips) ) =>
        LET k == Len(fn_call.clips)
            n == fn_call.target_size
            first == fn_call.clips[1]
        IN  /\ fn_result.raised = "none"
            /\ Len(fn_result.value) = n
            /\ \A j \in 1..k : fn_result.value[j] = fn_call.clips[j]
            /\ \A j \in (k + 1)..n :
                  /\ fn_result.value[j].opacity = "transparent"
                  /\ fn_result.value[j].index = first.index
                  /\ fn_result.value[j].from = first.from
                  /\ fn_result.value[j].to = first.to
            /\ fn_result.clips = fn_call.clips

\* C18 witness: two handles padded with at least two placeholders.
C18_Witness ==
    /\ fn_call.fn = "pad_clips_to_grid_size"
    /\ fn_result.done
    /\ Len(fn_call.clips) = 2
    /\ fn_call.target_size >= 4
    /\ Len(fn_result.value) = fn_call.target_size
    /\ fn_result.value[4].opacity = "transparent"

\* s[a:b] for 0 <= a <= b: the indices are clamped to the list.
PySlice(s, a, b) == SubSeq(s, Min(a, Len(s)) + 1, Min(b, Len(s)))

\* The rows of a list of rows, one after the other.
RECURSIVE ConcatRows(_)
ConcatRows(grid) ==
    IF grid = <<>> THEN <<>> ELSE Head(grid) \o ConcatRows(Tail(grid))

\* (mutant) the columns are laid side by side without the padding.
x_pos_unpadded(col_idx, clip_width, padding) == col_idx * clip_width

\* x_pos = col_idx * (clip_width + padding)
x_pos(col_idx, clip_width, padding) == col_idx * (clip_width + padding)

\* y_pos = row_idx * (clip_height + padding)
y_pos(row_idx, clip_height, padding) == row_idx * (clip_height + padding)

\* create_grid_layout(clips, cols, rows, padding): the exception it raises,
\* the size of the CompositeVideoClip and its positioned clips in the order
\* they are given to it. clips[0] of an empty list raises IndexError.
create_grid_layout(clip_list, cols, rows, padding) ==
    IF clip_list = <<>>
    THEN [raised |-> "IndexError", size |-> <<0, 0>>, positioned |-> <<>>]
    ELSE LET clip_width == clip_list[1].size[1]
             clip_height == clip_list[1].size[2]
             total_width == (cols * clip_width) + ((cols - 1) * padding)
             total_height == (rows * clip_height) + ((rows - 1) * padding)
             grid == [row \in 1..rows |->
                        PySlice(clip_list, (row - 1) * cols, (row - 1) * cols + cols)]
             PositionedRow(row) ==
                 [col \in 1..Len(grid[row]) |->
                     [clip |-> grid[row][col],
                      x |-> x_pos(col - 1, clip_width, padding),
                      y |-> y_pos(row - 1, clip_height, padding)]]
         IN  [raised |-> "none",
              size |-> <<total_width, total_height>>,
              positioned |-> ConcatRows([row \in 1..rows |-> PositionedRow(row)])]

\* The widest and the tallest grid of the applications of
\* create_grid_layout.
MaxGridCols == 3
MaxGridRows == 2

\* A clip handle of the given pixel size.
SizedClip(index, size) == [index |-> index, size |-> size]

\* The applications of create_grid_layout: grids up to MaxGridCols by
\* MaxGridRows, with and without padding, of 100x60 and of 2x1 clips, on
\* every list from the empty one to one clip more than the largest grid has
\* cells.
GridCalls ==
    { [fn |-> "create_grid_layout",
       clips |-> [k \in 1..n |-> SizedClip(k - 1, size)],
       cols |-> c[1], rows |-> c[2], padding |-> padding] :
         c \in (1..MaxGridCols) \X (1..MaxGridRows),
         n \in 0..(MaxGridCols * MaxGridRows + 1),
         size \in { <<100, 60>>, <<2, 1>> }, padding \in {0, 4} }

ApplyGridLayout ==
    /\ fn_call.fn = "create_grid_layout"
    /\ ~fn_result.done
    /\ LET r == create_grid_layout(fn_call.clips, fn_call.cols, fn_call.rows,
                                   fn_call.padding)
       IN  fn_result' = [done |-> TRUE, raised |-> r.raised, size |-> r.size,
                         positioned |-> r.positioned]
    /\ UNCHANGED << fn_call, programVars >>

\* C19: create_grid_layout places clip i at row i // cols and column
\* i % cols, its origin at (col * (clip_width + padding),
\* row * (clip_height + padding)), on a canvas cols * clip_width +
\* (cols - 1) * padding wide and rows * clip_height + (rows - 1) * padding
\* high; 3 columns, 2 rows, padding 4 and 100x60 clips give 308x124.
C19_GridPositions ==
    ( /\ fn_call.fn = "create_grid_layout"
      /\ fn_result.done
      /\ Len(fn_call.clips) >= 1
      /\ Len(fn_call.clips) <= fn_call.cols * fn_call.rows ) =>
        LET w == fn_call.clips[1].size[1]
            h == fn_call.clips[1].size[2]
            p == fn_call.padding
        IN  /\ fn_result.raised = "none"
            /\ fn_result.size[1] = fn_call.cols * w + (fn_call.cols - 1) * p
            /\ fn_result.size[2] = fn_call.rows * h + (fn_call.rows - 1) * p
            /\ (fn_call.cols = 3 /\ fn_call.rows = 2 /\ p = 4 /\ w = 100 /\ h = 60)
                  => fn_result.size = <<308, 124>>
            /\ Len(fn_result.positioned) = Len(fn_call.clips)
            /\ \A i \in 0..(Len(fn_call.clips) - 1) :
                  LET row == i \div fn_call.cols
                      col == i % fn_call.cols
                  IN  /\ fn_result.positioned[i + 1].clip = fn_call.clips[i + 1]
                      /\ fn_result.positioned[i + 1].x = col * (w + p)
                      /\ fn_result.positioned[i + 1].y = row * (h + p)

\* C19 witness: the full 3 by 2 grid of 100x60 clips with padding 4; the
\* last clip stands at (208, 64) on the 308x124 canvas.
C19_Witness ==
    /\ fn_call.fn = "create_grid_layout"
    /\ fn_result.done
    /\ fn_call.cols = 3 /\ fn_call.rows = 2 /\ fn_call.padding = 4
    /\ Len(fn_call.clips) = 6
    /\ fn_call.clips[1].size = <<100, 60>>
    /\ fn_result.size = <<308, 124>>
    /\ fn_result.positioned[6].x = 208
    /\ fn_result.positioned[6].y = 64

\* C20: create_grid_layout given an empty handle list raises a
\* configuration error (a ValueError, as pad_clips_to_grid_size and the
\* pipeline raise for an empty list). (The claim as stated.)
C20_EmptyListIsConfigurationError ==
    ( /\ fn_call.fn = "create_grid_layout"
      /\ fn_result.done
      /\ fn_call.clips = <<>> ) =>
        fn_result.raised = "ValueError"

\* create_video_thumbnails has returned or raised.
PipelineFinished == caller = "pipeline" /\ pc \in {"done", "aborted"}

\* C16: when create_video_thumbnails finishes, close() has been called on
\* every clip handle the extraction produced and on every padding
\* placeholder of pad_clips_to_grid_size. (The claim as stated.)
C16_EveryHandleClosed ==
    PipelineFinished =>
        /\ \A k \in DOMAIN clips : k \in handles.closed
        /\ handles.placeholder # "open"

\* C17: no clip handle and no source video a clip handle reads from is read
\* after close() was called on it. (The claim as stated.)
C17_NoReadAfterClose ==
    handles.stale_reads = {}

\* C21: on the parallel path the worker pool has min(max_workers when
\* configured, otherwise the core count; number of clips) processes, so
\* never more than there are clips. (The claim as stated.)
C21_PoolSizeIsMinimum ==
    ParallelPath =>
        /\ PoolSize = Min(IF config.max_workers # 0 THEN config.max_workers
                          ELSE CpuCount,
                          Len(metadatas))
        /\ PoolSize <= Len(metadatas)

\* C22: with enable_parallel off or fewer than 2 metadata entries,
\* create_clips_parallel runs sequentially in the caller: no scratch
\* directory, no temp file and no worker job exists at any time, and it
\* returns one annotated handle per metadata entry, in input order.
C22_SequentialWithoutPool ==
    (~config.enable_parallel \/ Len(metadatas) < 2) =>
        /\ ~temp_dir_exists
        /\ tasks = <<>> /\ temp_files = <<>> /\ completed_files = <<>>
        /\ job = <<>> /\ files = <<>>
        /\ opc # "raised"
        /\ opc = "returned" =>
              /\ Len(clips) = Len(metadatas)
              /\ \A k \in DOMAIN metadatas :
                    /\ clips[k].index = metadatas[k].index
                    /\ clips[k].from = metadatas[k].start_time
                    /\ clips[k].to = metadatas[k].start_time + metadatas[k].duration
                    /\ clips[k].annotated
                    /\ clips[k].path = <<>>

\* C22 witness: parallelism is off and two clips were returned.
C22_Witness ==
    /\ ~config.enable_parallel
    /\ opc = "returned"
    /\ Len(metadatas) = 2
    /\ Len(clips) = 2
    /\ clips[2].index = metadatas[2].index

\* cmd_generate with --no-compress: all the option does is make
\* compressed_output_path the output path.
NoCompress == caller = "pipeline" /\ config.compressed_output_path = config.output_path

\* C23: a generate run with --no-compress skips the compression step: the
\* external tool is never run, and the exported GIF is still at the output
\* path when the command returns exit code 0. (The claim as stated.)
C23_NoCompressSkipsTool ==
    NoCompress =>
        /\ ~CompressCalled
        /\ tool_run = NoToolRun
        /\ pc = "done" => Exists(outfs[config.output_path])

\* ------------------------------------------------------------ cmd_batch

\* What one run of create_video_thumbnails inside cmd_batch meets: whether
\* any clip could be created, the size of the exported GIF and the run of
\* the external tool.
BatchScenarios ==
    { [clips |-> FALSE, size |-> 1, run |-> NoToolRun] }
    \cup { [clips |-> TRUE, size |-> size, run |-> run] :
              size \in 1..MaxSize, run \in ToolRuns }

\* create_video_thumbnails(cfg) on a file of its own: the exception that
\* ends it ("none": it returns) and the output files it leaves. Without
\* clips it raises ValueError; otherwise the GIF is exported, compress_gif
\* runs and the raw GIF is removed when the compressed one exists.
PipelineRun(cfg, scenario) ==
    LET fs0 == [p \in {cfg.output_path, cfg.compressed_output_path} |-> NoFile]
    IN  IF ~scenario.clips
        THEN [raised |-> "ValueError", fs |-> fs0]
        ELSE LET fs1 == [fs0 EXCEPT ![cfg.output_path] = OutFile(scenario.size)]
                 r == compress_gif(cfg.output_path, cfg.compressed_output_path,
                                   fs1, scenario.run)
             IN  IF r.raised # "none"
                 THEN [raised |-> r.raised, fs |-> r.fs]
                 ELSE [raised |-> "none", fs |-> remove_original(r.fs, cfg)]

\* The Config cmd_batch builds for a file: output_path, and
\* compressed_output_path = output_path.replace('.gif', '_compressed.gif').
BatchConfig ==
    Config(MaxCols, MaxRows, TRUE, 0, <<"out.gif", "out_compressed.gif">>)

\* if os.path.exists(output_path): successful += 1, else: failed += 1
CountedSuccessful(fs, cfg) == Exists(fs[cfg.output_path])

\* The loop over valid_files: the counters when it ends. An exception of a
\* run counts the file as failed and, without --continue-on-error, ends
\* the loop.
RECURSIVE BatchLoop(_, _, _, _)
BatchLoop(runs, continue_on_error, successful, failed) ==
    IF runs = <<>>
    THEN [successful |-> successful, failed |-> failed]
    ELSE LET r == PipelineRun(BatchConfig, Head(runs))
         IN  IF r.raised # "none"
             THEN IF continue_on_error
                  THEN BatchLoop(Tail(runs), continue_on_error, successful, failed + 1)
                  ELSE [successful |-> successful, failed |-> failed + 1]
             ELSE IF CountedSuccessful(r.fs, BatchConfig)
                  THEN BatchLoop(Tail(runs), continue_on_error, successful + 1, failed)
                  ELSE BatchLoop(Tail(runs), continue_on_error, successful, failed + 1)

\* cmd_batch(args) on valid_files, one scenario per file: its exit code and
\* its counters. No valid file: "No valid video files found", exit code 1.
cmd_batch(runs, continue_on_error) ==
    IF runs = <<>>
    THEN [exit_code |-> 1, successful |-> 0, failed |-> 0]
    ELSE LET c == BatchLoop(runs, continue_on_error, 0, 0)
         IN  [exit_code |-> IF c.failed = 0 THEN 0 ELSE 1,
              successful |-> c.successful, failed |-> c.failed]

\* The most valid files of a batch.
MaxBatchFiles == 2

\* The applications of cmd_batch: up to MaxBatchFiles valid files, every
\* scenario for each, with and without --continue-on-error.
BatchCalls ==
    { [fn |-> "cmd_batch", runs |-> runs, continue_on_error |-> c] :
         runs \in UNION { [1..n -> BatchScenarios] : n \in 0..MaxBatchFiles },
         c \in BOOLEAN }

ApplyCmdBatch ==
    /\ fn_call.fn = "cmd_batch"
    /\ ~fn_result.done
    /\ LET r == cmd_batch(fn_call.runs, fn_call.continue_on_error)
       IN  fn_result' = [done |-> TRUE, raised |-> "none", exit_code |-> r.exit_code,
                         successful |-> r.successful, failed |-> r.failed]
    /\ UNCHANGED << fn_call, programVars >>

\* Every run of the batch completed without an exception.
AllRunsCompleted ==
    \A k \in DOMAIN fn_call.runs :
        PipelineRun(BatchConfig, fn_call.runs[k]).raised = "none"

\* C24: cmd_batch returns exit code 0 exactly when the pipeline completed
\* without error for every valid file, a completed run being counted as
\* successful. (The claim as stated.)
C24_BatchExitCode ==
    ( /\ fn_call.fn = "cmd_batch"
      /\ fn_result.done
      /\ fn_call.runs # <<>> ) =>
        /\ (fn_result.exit_code = 0) <=> AllRunsCompleted
        /\ AllRunsCompleted => fn_result.successful = Len(fn_call.runs)

\* C25: a temp file is removed only after the clip handle loaded from it
\* was closed: every handle of the parallel path that is not closed yet is
\* backed by an existing file. (The claim as stated.)
C25_OpenHandleHasItsFile ==
    ParallelPath =>
        \A k \in DOMAIN clips :
            k \notin handles.closed => Exists(files[clips[k].path])

\* The as_completed loop of the parallel path ran to its end.
BatchFinished ==
    /\ ParallelPath
    /\ opc \in {"load", "cleanup", "returned"}
    /\ pending_exc = "none"

\* C26: when the parallel batch has finished, completed_files holds the temp
\* path of every submitted task exactly once, whether its job succeeded,
\* wrote the fallback, failed in both stages or its future raised.
C26_EveryPathRecordedOnce ==
    BatchFinished =>
        /\ Len(completed_files) = Len(tasks)
        /\ \A i \in DOMAIN tasks :
              Cardinality({ k \in DOMAIN completed_files :
                              completed_files[k] = tasks[i].temp_output_path }) = 1

\* C26 witness: a finished batch with a job that failed in both stages and
\* a future that raised.
C26_Witness ==
    /\ BatchFinished
    /\ \E i \in DOMAIN job : job[i] = "failed"
    /\ \E i \in DOMAIN job : job[i] = "crashed"
    /\ Len(completed_files) = 2

\* The path lies directly inside the scratch directory.
InTempDir(path) ==
    /\ Len(path) > Len(TempDirName) + 1
    /\ SubSeq(path, 1, Len(TempDirName)) = TempDirName
    /\ path[Len(TempDirName) + 1] = OrdSlash
    /\ \A k \in (Len(TempDirName) + 2)..Len(path) : path[k] # OrdSlash

\* The tasks of the run have pairwise distinct temp paths in the scratch
\* directory.
DistinctTempPaths ==
    /\ \A i, j \in DOMAIN tasks :
          i # j => tasks[i].temp_output_path # tasks[j].temp_output_path
    /\ \A i \in DOMAIN tasks : InTempDir(tasks[i].temp_output_path)

\* A step of a worker process: the state of a submitted job changes.
WorkerStep == job # <<>> /\ job' # job

\* The step changes no file but the temp file of a job that was running and
\* whose state it changes, removes no file and leaves the scratch directory.
WritesOwnPathOnly ==
    /\ temp_dir_exists' = temp_dir_exists
    /\ DOMAIN files' = DOMAIN files
    /\ \A p \in DOMAIN files :
          files'[p] # files[p] =>
              /\ Exists(files'[p])
              /\ \E i \in DOMAIN job :
                    /\ job[i] \in {"primary", "fallback"}
                    /\ job'[i] # job[i]
                    /\ tasks[i].temp_output_path = p

\* C27: within one parallel run the tasks have pairwise distinct temp paths
\* inside the scratch directory, a worker job writes only to the temp path
\* of its own task, and no worker removes a file or the scratch directory.
C27_WorkersKeepToTheirFile ==
    /\ []DistinctTempPaths
    /\ [][WorkerStep => WritesOwnPathOnly]_vars

\* C27 witness: two tasks that drew the same uuid prefix, one job has
\* written its clip and the other its fallback.
C27_Witness ==
    /\ Len(tasks) = 2
    /\ SubSeq(tasks[1].temp_output_path, 13, 20) = SubSeq(tasks[2].temp_output_path, 13, 20)
    /\ job[1] = "ok" /\ job[2] = "degraded"
    /\ files[tasks[1].temp_output_path].state = "good"
    /\ files[tasks[2].temp_output_path].state = "good"
    /\ temp_dir_exists

\* process_single_clip has returned for job i.
JobReturned(i) == job[i] \in {"ok", "degraded", "failed"}

\* C28: on every exit path of process_single_clip (primary success,
\* fallback success after a primary failure, both stages failing) the job
\* has closed every video and clip it opened before it returns. (The claim
\* as stated.)
C28_WorkerClosesWhatItOpened ==
    \A i \in DOMAIN job : JobReturned(i) => handles.worker_open[i] = {}

\* create_video_thumbnails has called create_grid_layout.
GridComposed == caller = "pipeline" /\ handles.grid # "none"

\* C29: whenever create_video_thumbnails reaches create_grid_layout, the
\* list it passes has exactly cols * rows handles: sampling and extraction
\* never yield more than cols * rows clips, and padding fills the shortfall.
C29_GridListIsFull ==
    caller = "pipeline" =>
        /\ Len(metadatas) <= config.cols * config.rows
        /\ Len(clips) <= config.cols * config.rows
        /\ GridComposed =>
              /\ Len(clips) >= 1
              /\ Len(clips) + handles.placeholders = config.cols * config.rows
              /\ Len(pad_clips_to_grid_size(clips, config.cols * config.rows).value)
                    = config.cols * config.rows

\* C29 witness: a grid of two cells composed from one clip and one
\* placeholder.
C29_Witness ==
    /\ GridComposed
    /\ config.cols * config.rows = 2
    /\ Len(clips) = 1
    /\ handles.placeholders = 1

\* C30 as stated: an error of removing a temp file or the scratch directory
\* is logged and not propagated: every cleanup error has its line in the
\* log, and create_clips_parallel returns unless an exception was already
\* in flight.
C30_CleanupErrorsLogged ==
    /\ cleanup_log = cleanup_errors
    /\ Exited => ((opc = "raised") <=> (pending_exc = "KeyboardInterrupt"))

\* The finally clause of create_clips_parallel ends.
CleanupEnds == opc = "cleanup" /\ opc' # "cleanup"

\* C30 (amended): an error of removing a temp file or the scratch directory
\* is swallowed without a log line and never propagated:
\* create_clips_parallel returns the clip list it had loaded, or raises the
\* exception that was in flight, whatever the removals did.
C30_CleanupErrorsSwallowed ==
    /\ [](cleanup_log = {})
    /\ [][CleanupEnds =>
            /\ clips' = clips
            /\ pending_exc' = pending_exc
            /\ opc' = IF pending_exc = "none" THEN "returned" ELSE "raised"]_vars

\* C30 witness: the removal of a temp file and of the directory failed and
\* create_clips_parallel returned its two clips.
C30_Witness ==
    /\ ParallelPath
    /\ opc = "returned"
    /\ \E p \in TaskPaths : p \in cleanup_errors
    /\ TempDirName \in cleanup_errors
    /\ Len(clips) = 2
    /\ pending_exc = "none"

\* ------------------------------------------------------------ SpecPure

PureCalls ==
    BuildCalls \cup SampleCalls \cup PadCalls \cup GridCalls \cup BatchCalls

InitPure ==
    /\ fn_call \in PureCalls
    /\ fn_result = NoResult
    /\ caller = "function"
    /\ config = DefaultConfig
    /\ video_duration = 0
    /\ metadatas = <<>>
    /\ pc = "function"
    /\ opc = "idle"
    /\ InitCommon

NextPure ==
    \/ ApplyBuildCommand
    \/ ApplyGenerateTimestamps
    \/ ApplyPadClips
    \/ ApplyGridLayout
    \/ ApplyCmdBatch

SpecPure == InitPure /\ [][NextPure]_vars

====
